---- MODULE Spec2Model ----
(***************************************************************************)
(* Model of core/remotes/docker/resolver.go: the Resolve orchestrator with *)
(* its retry engine (doWithRetries / retryRequest) and the https -> http   *)
(* fallback transport (httpFallback.RoundTrip).                            *)
(***************************************************************************)
EXTENDS Integers, Sequences, FiniteSets, TLC

\* ------------------------------------------------------------------ bounds
\* Largest number of configured registry hosts for the namespace.
MaxHosts == 2
\* Largest number of RoundTrip calls made on the fallback transport.
MaxCalls == 4

\* --------------------------------------------------------- program constants
MaxManifestSize == 4 * 1048 * 1048

MediaTypeDockerSchema1Manifest == <<"application/vnd.docker.distribution.manifest.v1+prettyjws">>
MediaTypeImageManifest == <<"application/vnd.oci.image.manifest.v1+json">>

HostCapabilityPull == {"Pull"}
HostCapabilityResolve == {"Resolve"}

\* ------------------------------------------------------------------ values
\* A digest is <<algorithm, content>>; the empty digest "" is <<>>.
NoDigest == <<>>
RefDigest == <<"sha256", <<"ref">>>>
BadDigest == <<"bogus">>

\* digest.Digest.Validate (go-digest): algorithm known and an encoded part.
Validate(d) == Len(d) = 2 /\ d[1] \in {"sha256", "sha384", "sha512"}

\* digest.FromReader: the sha256 of the bytes read.
FromBytes(data) == <<"sha256", data>>

\* Errors are records of one shape.
Err(kind, msg, status, n) ==
    [kind |-> kind, msg |-> msg, status |-> status, n |-> n]
NoErr == Err("nil", "", 0, 0)

NoDesc == [Digest |-> NoDigest, MediaType |-> <<>>, Size |-> 0]

\* The references Resolve is called with: a tag, a digest, an invalid digest,
\* and a reference without object.
Refs ==
    { [Object |-> "v1", Digest |-> NoDigest],
      [Object |-> "sha256:ref", Digest |-> RefDigest],
      [Object |-> "bogus", Digest |-> BadDigest],
      [Object |-> "", Digest |-> NoDigest] }

\* Host configurations (capabilities, with or without an authorizer).
HostKinds ==
    { [Capabilities |-> {"Pull", "Resolve"}, Authorizer |-> TRUE],
      [Capabilities |-> {"Pull"}, Authorizer |-> FALSE],
      [Capabilities |-> {"Resolve", "Push"}, Authorizer |-> TRUE] }

\* What the registries may answer.
Statuses == {200, 301, 401, 404, 405, 500}
ContentLengths == {-1, 1234, 4 * 1024 * 1024, 4 * 1024 * 1024 + 1,
                   MaxManifestSize, MaxManifestSize + 1}
\* Content-Type header values, as the sequence of their ';'-separated parts
\* with the separators kept.
ContentTypes ==
    { MediaTypeImageManifest,
      MediaTypeDockerSchema1Manifest,
      <<"text/plain", ";", "charset=utf-8">> }
DigestHeaders == {NoDigest, <<"sha256", <<"a">>>>, BadDigest}
\* Response bodies: chunks as one Read returns them, then EOF or an error.
Bodies ==
    { [chunks |-> <<[data |-> "a", n |-> 1000], [data |-> "b", n |-> 200]>>, fail |-> FALSE],
      [chunks |-> <<[data |-> "a", n |-> MaxManifestSize], [data |-> "b", n |-> 1]>>, fail |-> FALSE],
      [chunks |-> <<[data |-> "a", n |-> 1000]>>, fail |-> TRUE] }

VARIABLES
    ref,              \* the reference being resolved
    rhosts,           \* r.hosts: the configured hosts of the namespace
    pc,               \* "start", "head", "get", "done"
    paths,            \* the paths to try
    hosts,            \* the filtered hosts
    u,                \* index of the current path
    i,                \* index of the current host
    dgst, size, contentType,
    firstErr, firstErrPriority,
    req,              \* the request being run by doWithRetries
    responses,        \* the status codes doWithRetriesInner has collected
    resp,             \* the response of the follow-up GET
    bodyReader,       \* the countingReader over the body of that response
    result,           \* what Resolve returned
    wire,             \* the last request handed to the HTTP client
    recorded,         \* the priorities of the failures met in the loop
    base,             \* base.repository inside the loop body (line 293)
    head              \* resp of line 308: the successful response to the
                      \* HEAD request of the pair, when no GET follows it

rvars == <<ref, rhosts, pc, paths, hosts, u, i, dgst, size, contentType,
           firstErr, firstErrPriority, req, responses, resp, bodyReader,
           result, wire, recorded, base, head>>

VARIABLES
    mapOrder,         \* the order of the next range over a host.Rewrites map
    registry,         \* the answers of the hosts that answer as a fixed
                      \* function of the request; <<>>: they answer anything
    first             \* what the first of two Resolve calls returned

tvars == <<mapOrder, registry, first>>

VARIABLES
    fhost,            \* httpFallback.host ("" is NoHost); f.mu guards it
    calls,            \* the RoundTrip call each goroutine is in
    ncalls,           \* the number of RoundTrip calls begun
    inner,            \* the last request handed to f.super
    returned          \* what the last RoundTrip to return returned

fvars == <<fhost, calls, ncalls, inner, returned>>

VARIABLES
    run               \* one request in doWithRetries, outside Resolve

VARIABLES
    nscall,           \* one call of request.addNamespace
    rwcall            \* one call of dockerBase.withRewritesFromHost

pvars == <<nscall, rwcall>>

vars == <<rvars, tvars, fvars, run, pvars>>

\* --------------------------------------------------------- pure functions

\* strings.IndexByte(contentType, ';'), 0 when there is none.
IndexSemi(ct) ==
    IF \E k \in 1..Len(ct) : ct[k] = ";"
    THEN CHOOSE k \in 1..Len(ct) : ct[k] = ";" /\ \A j \in 1..(k - 1) : ct[j] # ";"
    ELSE 0

getManifestMediaType(r) ==
    LET sp == IndexSemi(r.ContentType)
        contentType0 == IF sp # 0 THEN SubSeq(r.ContentType, 1, sp - 1)
                        ELSE r.ContentType
    IN IF contentType0 = <<"text/plain">> THEN MediaTypeDockerSchema1Manifest
       ELSE contentType0

\* Read with the count replaced, not accumulated.
ReadLastOnly(r) ==
    [reader |-> [r.reader EXCEPT !.chunks = Tail(@)],
     bytesRead |-> Head(r.reader.chunks).n]

\* countingReader.Read: one Read of the underlying reader, counted.
Read(r) ==
    [reader |-> [r.reader EXCEPT !.chunks = Tail(@)],
     bytesRead |-> r.bytesRead + Head(r.reader.chunks).n]

\* io.Copy / digest.FromReader over a countingReader: Read until EOF or error.
RECURSIVE ReadAll(_, _)
ReadAll(r, data) ==
    IF r.reader.chunks = <<>>
    THEN [r |-> r, data |-> data, err |-> r.reader.fail]
    ELSE ReadAll(Read(r), Append(data, Head(r.reader.chunks).data))

\* filterHosts without the capability test.
filterHostsAll(hs, caps) == hs

\* HostCapabilities.Has and dockerBase.filterHosts.
filterHosts(hs, caps) ==
    SelectSeq(hs, LAMBDA host : caps \subseteq host.Capabilities)

\* regexp.Compile(pattern) succeeds.
Compiles(pattern) == pattern # "("

\* regexp.ReplaceAllString(src, repl) for the patterns of the model: one
\* matches the repository app only, one matches every repository.
ReplaceAllString(pattern, src, repl) ==
    CASE pattern = "^app$" -> IF src = "app" THEN repl ELSE src
      [] pattern = "^(.*)$" -> repl
      [] OTHER -> src

\* dockerBase.withRewritesFromHost: the repository of the base that the
\* range over host.Rewrites gives, the map being visited in the order order;
\* a pattern that does not compile is skipped, the first rewrite that changes
\* the repository is taken.
RECURSIVE withRewritesFromHost(_, _, _)
withRewritesFromHost(repository, host, order) ==
    IF order = <<>> THEN repository
    ELSE LET pattern == Head(order)
             rest == withRewritesFromHost(repository, host, Tail(order))
         IN IF pattern \notin DOMAIN host.Rewrites THEN rest
            ELSE IF ~Compiles(pattern) THEN rest
                 ELSE LET rr == ReplaceAllString(pattern, repository, host.Rewrites[pattern])
                      IN IF rr # repository THEN rr ELSE rest

\* The orders in which a range statement may visit the keys of a map.
Orders(keys) ==
    { sq \in [1..Cardinality(keys) -> keys] :
         \A a, b \in 1..Cardinality(keys) : a # b => sq[a] # sq[b] }

\* dockerBase.request: the path is /<host.Path>/<repository>/<ps...>.
request(repository, host, method, ps) ==
    [method |-> method, path |-> <<"v2", repository>> \o ps, host |-> host]
NoRequest == [method |-> "", path |-> <<>>,
              host |-> [Host |-> 0, Capabilities |-> {}, Authorizer |-> FALSE,
                        Rewrites |-> <<>>]]
NoResponse == [StatusCode |-> 0, ContentType |-> <<>>, Body |-> [chunks |-> <<>>, fail |-> FALSE]]
NoReader == [reader |-> [chunks |-> <<>>, fail |-> FALSE], bytesRead |-> 0]
NoWire == [path |-> 0, host |-> 0, method |-> ""]
NoHead == [DockerContentDigest |-> NoDigest, ContentLength |-> 0]
NoResult == [ret |-> 0, desc |-> NoDesc, err |-> NoErr]

\* strings.Contains(r.path, "/manifests/")
ContainsManifests(path) == \E k \in 1..(Len(path) - 1) : path[k] = "manifests"

unexpectedResponseErr(status) == Err("UnexpectedStatus", "unexpected status", status, 0)

\* The retry limit one response too late.
tooManyResponsesLate(rs) == Len(rs) > 6

\* if len(responses) > 5
tooManyResponses(rs) == Len(rs) > 5

\* Every error of AddResponses taken for a refusal.
IsNotImplementedAny(err) == TRUE

\* errdefs.IsNotImplemented(err)
IsNotImplemented(err) == err = "NotImplemented"

\* request.retryRequest; addResponses is what the authorizer's AddResponses
\* answers: "ok", "NotImplemented" or "error". asked: AddResponses was
\* called, with rs.
retryRequest(r, rs, lastHost, addResponses) ==
    LET last == rs[Len(rs)]
        no == [retry |-> FALSE, err |-> FALSE, method |-> r.method, asked |-> FALSE]
        yes == [retry |-> TRUE, err |-> FALSE, method |-> r.method, asked |-> FALSE]
    IN IF tooManyResponses(rs) THEN no
       ELSE CASE last = 401 ->
                   IF r.host.Authorizer
                   THEN IF addResponses = "ok" THEN [yes EXCEPT !.asked = TRUE]
                        ELSE IF ~IsNotImplemented(addResponses)
                             THEN [no EXCEPT !.err = TRUE, !.asked = TRUE]
                             ELSE [no EXCEPT !.asked = TRUE]
                   ELSE no
              [] last = 405 ->
                   IF r.method = "HEAD" /\ ContainsManifests(r.path)
                   THEN [yes EXCEPT !.method = "GET"]
                   ELSE no
              [] last \in {408, 429} -> yes
              [] last \in {503, 504, 500} ->
                   IF Len(rs) > 1 /\ rs[Len(rs) - 1] = last THEN no
                   ELSE IF lastHost THEN yes ELSE no
              [] OTHER -> no

\* ------------------------------------------------------------ Resolve
\* The locals of the running Resolve call, as one record.
Locals ==
    [pc |-> pc, u |-> u, i |-> i, dgst |-> dgst, size |-> size,
     contentType |-> contentType, firstErr |-> firstErr,
     firstErrPriority |-> firstErrPriority, req |-> req,
     responses |-> responses, resp |-> resp, bodyReader |-> bodyReader,
     result |-> result, wire |-> wire, recorded |-> recorded,
     base |-> base, head |-> head]

Set(n) ==
    /\ pc' = n.pc /\ u' = n.u /\ i' = n.i /\ dgst' = n.dgst /\ size' = n.size
    /\ contentType' = n.contentType /\ firstErr' = n.firstErr
    /\ firstErrPriority' = n.firstErrPriority /\ req' = n.req
    /\ responses' = n.responses /\ resp' = n.resp
    /\ bodyReader' = n.bodyReader /\ result' = n.result /\ wire' = n.wire
    /\ recorded' = n.recorded /\ base' = n.base /\ head' = n.head

\* A return statement of Resolve, named by its source line.
return(s, line, desc, err) ==
    [pc |-> "done", u |-> 0, i |-> 0, dgst |-> NoDigest, size |-> 0,
     contentType |-> <<>>, firstErr |-> NoErr, firstErrPriority |-> 0,
     req |-> NoRequest, responses |-> <<>>, resp |-> NoResponse,
     bodyReader |-> NoReader,
     result |-> [ret |-> line, desc |-> desc, err |-> err],
     wire |-> s.wire, recorded |-> s.recorded, base |-> "", head |-> s.head]

\* r.base.repository: the repository of the reference.
Repository == "app"

\* The head of the loop body for the pair (path p, host h): the base with the
\* rewrites of the host, a fresh HEAD request; size and contentType are
\* declared anew in every iteration.
iterate(s, ps, hs, p, h) ==
    LET b == withRewritesFromHost(Repository, hs[h], mapOrder)
    IN [s EXCEPT !.pc = "head", !.u = p, !.i = h, !.base = b,
                 !.req = request(b, hs[h], "HEAD", ps[p]), !.responses = <<>>,
                 !.size = 0, !.contentType = <<>>, !.head = NoHead,
                 !.resp = NoResponse, !.bodyReader = NoReader]

\* The loops nested the other way round: every path on a host, then the
\* next host.
continuePathsFirst(s) ==
    IF s.u < Len(paths) THEN iterate(s, paths, hosts, s.u + 1, s.i)
    ELSE IF s.i < Len(hosts) THEN iterate(s, paths, hosts, 1, s.i + 1)
    ELSE return(s, 426, NoDesc,
                IF s.firstErr = NoErr THEN Err("NotFound", "ref", 0, 0) ELSE s.firstErr)

\* continue: the next host, then the next path, then the return after the loops.
continue(s) ==
    IF s.i < Len(hosts) THEN iterate(s, paths, hosts, s.u, s.i + 1)
    ELSE IF s.u < Len(paths) THEN iterate(s, paths, hosts, s.u + 1, 1)
    ELSE return(s, 426, NoDesc,
                IF s.firstErr = NoErr THEN Err("NotFound", "ref", 0, 0) ELSE s.firstErr)

\* The last error recorded wins, whatever its priority.
outranksAlways(priority, cur) == TRUE

\* if firstErrPriority < priority { firstErr = err; firstErrPriority = priority }
outranks(priority, cur) == cur < priority

record(s, priority, err) ==
    LET t == [s EXCEPT !.recorded = @ \cup {priority}]
    IN IF outranks(priority, s.firstErrPriority)
       THEN [t EXCEPT !.firstErr = err, !.firstErrPriority = priority]
       ELSE t

\* The size ceiling left out.
tooLargeNever(n) == FALSE

\* if size > MaxManifestSize
tooLarge(n) == n > MaxManifestSize

\* Lines 400-416: the size ceiling, then the descriptor.
assemble(s) ==
    IF tooLarge(s.size)
    THEN continue(record(s, 4, Err("NotFound", "rejecting manifest", 0, s.size)))
    ELSE return(s, 416,
                [Digest |-> s.dgst, MediaType |-> s.contentType, Size |-> s.size],
                NoErr)

\* The header read without the dgst == "" guard.
useHeaderUnguarded(d, dgstHeader, n) == dgstHeader # NoDigest /\ n # -1

\* if dgst == "" { ... if dgstHeader != "" && size != -1
useHeader(d, dgstHeader, n) == d = NoDigest /\ dgstHeader # NoDigest /\ n # -1

\* Lines 309-319: doWithRetries of the HEAD returned an error.
headFailed(s, err) == continue(record(s, 1, err))

\* Lines 320-375: doWithRetries of the HEAD returned the response r.
headDone(s, r) ==
    IF r.StatusCode > 299
    THEN IF r.StatusCode = 404
         THEN continue(record(s, 2, Err("NotFound", "ref", 0, 0)))
         ELSE IF r.StatusCode > 399
              THEN continue(record(s, 3, unexpectedResponseErr(r.StatusCode)))
              ELSE return(s, 339, NoDesc, unexpectedResponseErr(r.StatusCode))
    ELSE LET n == r.ContentLength
             ct == getManifestMediaType(r)
             dgstHeader == r.DockerContentDigest
             hdr == useHeader(s.dgst, dgstHeader, n)
             s1 == [s EXCEPT !.head = [DockerContentDigest |-> dgstHeader,
                                       ContentLength |-> n]]
         IN IF hdr /\ ~Validate(dgstHeader)
            THEN return(s1, 355, NoDesc, Err("InvalidDigest", "in header not a valid digest", 0, 0))
            ELSE LET t == [s1 EXCEPT !.size = n, !.contentType = ct,
                                     !.dgst = IF hdr THEN dgstHeader ELSE @]
                 IN IF t.dgst = NoDigest \/ t.size = -1
                    THEN [t EXCEPT !.pc = "get", !.responses = <<>>, !.head = NoHead,
                                   !.req = request(s.base, hosts[s.i], "GET", paths[s.u])]
                    ELSE assemble(t)

\* Lines 372-379: doWithRetries of the GET returned the response r.
getDone(s, r) ==
    [s EXCEPT !.pc = "read", !.resp = r, !.responses = <<>>,
              !.bodyReader = [reader |-> r.Body, bytesRead |-> 0],
              !.contentType = getManifestMediaType(r)]

\* Lines 380-416: the body of the GET response is read, or refused.
readBody(s) ==
    LET ct == s.contentType
        br == s.bodyReader
        all == ReadAll(br, <<>>)
        t == s
    IN IF s.dgst # NoDigest
       THEN IF all.err
            THEN return([t EXCEPT !.bodyReader = all.r], 396, NoDesc,
                        Err("BodyRead", "read failed", 0, 0))
            ELSE assemble([t EXCEPT !.bodyReader = all.r, !.size = all.r.bytesRead])
       ELSE IF ct = MediaTypeDockerSchema1Manifest
            THEN return([t EXCEPT !.bodyReader = br], 396, NoDesc,
                        Err("NotImplemented", "schema 1 is no longer supported", 0, 0))
            ELSE IF all.err
                 THEN return([t EXCEPT !.bodyReader = all.r], 396, NoDesc,
                             Err("BodyRead", "read failed", 0, 0))
                 ELSE assemble([t EXCEPT !.bodyReader = all.r,
                                         !.dgst = FromBytes(all.data),
                                         !.size = all.r.bytesRead])

\* Lines 373-375: doWithRetries of the GET returned an error.
getFailed(s, err) == return(s, 374, NoDesc, err)

\* request.do: Authorize may fail before anything is sent ("authorize",
\* "invalid authorization"); the client may fail ("transport"); or a
\* response with some status arrives.
DoErrors(host) ==
    {"transport"} \cup (IF host.Authorizer THEN {"invalid authorization"} ELSE {})

\* The request as a host sees it: a host that answers as a fixed function of
\* the request has one answer for it in registry.
key(r) == <<r.host.Host, r.path, r.method>>
Fixed(r) == key(r) \in DOMAIN registry

\* What request.do may give for the request r; a host that answers as a
\* fixed function of the request is reached and answers.
DoErrorsOf(r) == IF Fixed(r) THEN {} ELSE DoErrors(r.host)
StatusesOf(r) == IF Fixed(r) THEN {registry[key(r)].StatusCode} ELSE Statuses

doErr(e) ==
    IF e = "transport" THEN Err("Request", "failed to do request", 0, 0)
    ELSE Err("Request", "failed to authorize: authorization failed", 0, 0)

\* Lines 310-312: ErrInvalidAuthorization is wrapped, every other error kept.
wrapDenied(err) ==
    IF err.msg = "failed to authorize: authorization failed"
    THEN [err EXCEPT !.msg = "pull access denied, repository does not exist or may require authorization"]
    ELSE err

\* Authorizer.AddResponses is consulted for a 401 only; it accepts, declines
\* with NotImplemented, or fails.
AddResponses(st) == IF st = 401 THEN {"ok", "NotImplemented", "error"} ELSE {"NotImplemented"}

sends(s) == [s EXCEPT !.wire = [path |-> s.u, host |-> s.req.host.Host, method |-> s.req.method]]

\* One round of doWithRetriesInner for the request s.req, the do failing
\* with one of errs or answered with one of the statuses sts: do, then
\* retryRequest. The outcomes: the call failed with err, the request is
\* retried, or the response with status st is returned to the caller.
\* asked: AddResponses was called with the responses collected, and gave
\* answer.
round(s, lastHost, errs, sts) ==
    { [kind |-> "failed", s |-> IF e = "transport" THEN sends(s) ELSE s,
       err |-> doErr(e), st |-> 0, asked |-> FALSE, answer |-> ""] : e \in errs }
    \cup
    UNION { { LET rs == Append(s.responses, st)
                  rr == retryRequest(s.req, rs, lastHost, a)
                  t == [sends(s) EXCEPT !.responses = rs]
              IN IF rr.err
                 THEN [kind |-> "failed", s |-> t,
                       err |-> Err("Request", "AddResponses failed", 0, 0),
                       st |-> st, asked |-> rr.asked, answer |-> a]
                 ELSE IF rr.retry
                      THEN [kind |-> "retry", s |-> [t EXCEPT !.req.method = rr.method],
                            err |-> NoErr, st |-> st, asked |-> rr.asked, answer |-> a]
                      ELSE [kind |-> "done", s |-> t,
                            err |-> NoErr, st |-> st, asked |-> rr.asked, answer |-> a]
              : a \in AddResponses(st) } : st \in sts }

\* doWithRetriesInner as Resolve runs it, against the hosts of the namespace.
doWithRetriesInner(s, lastHost) ==
    round(s, lastHost, DoErrorsOf(s.req), StatusesOf(s.req))

\* Every host taken for the last.
isLastHostAlways(k, hs) == TRUE

\* i == len(hosts)-1 (line 308; hosts are numbered from 1 here)
isLastHost(k, hs) == k = Len(hs)

HeadResponses(st) ==
    IF st > 299
    THEN {[StatusCode |-> st, ContentLength |-> -1, ContentType |-> <<>>,
           DockerContentDigest |-> NoDigest]}
    ELSE [StatusCode : {st}, ContentLength : ContentLengths,
          ContentType : ContentTypes, DockerContentDigest : DigestHeaders]

GetResponses(st) == [StatusCode : {st}, ContentType : ContentTypes, Body : Bodies]

\* The response with status st to the request r, as Resolve reads it after a
\* HEAD and after a GET.
HeadAnswers(r, st) ==
    IF Fixed(r)
    THEN LET a == registry[key(r)]
         IN {[StatusCode |-> a.StatusCode, ContentLength |-> a.ContentLength,
              ContentType |-> a.ContentType,
              DockerContentDigest |-> a.DockerContentDigest]}
    ELSE HeadResponses(st)

GetAnswers(r, st) ==
    IF Fixed(r)
    THEN LET a == registry[key(r)]
         IN {[StatusCode |-> a.StatusCode, ContentType |-> a.ContentType,
              Body |-> a.Body]}
    ELSE GetResponses(st)

\* The orders in which the rewrites of the hosts may be visited.
MapOrders == Orders(UNION {DOMAIN rhosts[k].Rewrites : k \in 1..Len(rhosts)})

\* What a step of Resolve leaves alone, and the order of the next range over
\* a map of rewrites, which the runtime picks anew.
Elsewhere ==
    /\ UNCHANGED <<ref, rhosts, registry, first, fvars, run, pvars>>
    /\ mapOrder' \in MapOrders

\* Lines 236-273 and the entry of the loops.
ResolveStart ==
    /\ pc = "start"
    /\ Elsewhere
    /\ LET d == ref.Digest
           ps == IF d # NoDigest
                 THEN <<<<"manifests", ref.Object>>, <<"blobs", ref.Object>>>>
                 ELSE <<<<"manifests", ref.Object>>>>
           caps == IF d # NoDigest THEN HostCapabilityPull
                   ELSE HostCapabilityPull \cup HostCapabilityResolve
           hs == filterHosts(rhosts, caps)
           s == Locals
       IN IF ref.Object = ""
          THEN Set(return(s, 243, NoDesc, Err("ObjectRequired", "object required", 0, 0)))
               /\ UNCHANGED <<paths, hosts>>
          ELSE IF d # NoDigest /\ ~Validate(d)
               THEN Set(return(s, 256, NoDesc, Err("InvalidDigest", "invalid digest", 0, 0)))
                    /\ UNCHANGED <<paths, hosts>>
               ELSE /\ paths' = ps
                    /\ hosts' = hs
                    /\ IF Len(hs) = 0
                       THEN Set(return([s EXCEPT !.dgst = d], 272, NoDesc,
                                       Err("NotFound", "no resolve hosts", 0, 0)))
                       ELSE Set(iterate([s EXCEPT !.dgst = d], ps, hs, 1, 1))

\* One attempt of the HEAD request of the current pair (line 308).
HeadAttempt ==
    /\ pc = "head"
    /\ Elsewhere /\ UNCHANGED <<paths, hosts>>
    /\ \E o \in doWithRetriesInner(Locals, isLastHost(i, hosts)) :
          CASE o.kind = "failed" -> Set(headFailed(o.s, wrapDenied(o.err)))
            [] o.kind = "retry" -> Set(o.s)
            [] OTHER -> \E r \in HeadAnswers(req, o.st) : Set(headDone(o.s, r))

\* One attempt of the follow-up GET request of the current pair (line 372).
GetAttempt ==
    /\ pc = "get"
    /\ Elsewhere /\ UNCHANGED <<paths, hosts>>
    /\ \E o \in doWithRetriesInner(Locals, TRUE) :
          CASE o.kind = "failed" -> Set(getFailed(o.s, o.err))
            [] o.kind = "retry" -> Set(o.s)
            [] OTHER -> \E r \in GetAnswers(req, o.st) : Set(getDone(o.s, r))

ResolveInit ==
    /\ pc = "start" /\ paths = <<>> /\ hosts = <<>> /\ u = 0 /\ i = 0
    /\ dgst = NoDigest /\ size = 0 /\ contentType = <<>>
    /\ firstErr = NoErr /\ firstErrPriority = 0
    /\ req = NoRequest /\ responses = <<>> /\ resp = NoResponse
    /\ bodyReader = NoReader
    /\ result = NoResult
    /\ wire = NoWire
    /\ recorded = {}
    /\ base = "" /\ head = NoHead

\* The locals of a Resolve call that has not begun.
Fresh ==
    [pc |-> "start", u |-> 0, i |-> 0, dgst |-> NoDigest, size |-> 0,
     contentType |-> <<>>, firstErr |-> NoErr, firstErrPriority |-> 0,
     req |-> NoRequest, responses |-> <<>>, resp |-> NoResponse,
     bodyReader |-> NoReader, result |-> NoResult, wire |-> NoWire,
     recorded |-> {}, base |-> "", head |-> NoHead]

\* Resolve is called a second time with the same reference, on the same
\* resolver: what the first call returned is kept for comparison.
ResolveAgain ==
    /\ pc = "done" /\ first = NoResult
    /\ first' = result
    /\ Set(Fresh) /\ paths' = <<>> /\ hosts' = <<>>
    /\ mapOrder' \in MapOrders
    /\ UNCHANGED <<ref, rhosts, registry, fvars, run, pvars>>

\* No second call, and hosts that may answer anything.
NoTwice == mapOrder \in MapOrders /\ registry = <<>> /\ first = NoResult

\* ------------------------------------------------------ doWithRetries alone
\* The statuses a host answers a request with.
AllStatuses == {200, 401, 405, 429, 500, 502, 503}

\* Request paths: a manifest of the repository app, a blob of it, and a
\* blob of the repository lib/manifests/app.
ManifestsPath == <<"v2", "app", "manifests", "v1">>
BlobsPath == <<"v2", "app", "blobs", "sha256:ref">>
OddBlobsPath == <<"v2", "lib", "manifests", "app", "blobs", "sha256:ref">>

NoRet == [st |-> 0, err |-> NoErr]

\* No request is being run outside Resolve.
RetryIdle ==
    [pc |-> "idle", req |-> NoRequest, lastHost |-> FALSE, responses |-> <<>>,
     u |-> 0, wire |-> NoWire, attempts |-> 0, added |-> <<>>, ret |-> NoRet]

\* doWithRetries(ctx, lastHost) is called on a request.
RetryInit ==
    \E m \in {"HEAD", "GET"}, p \in {ManifestsPath, BlobsPath, OddBlobsPath},
       a \in BOOLEAN, l \in BOOLEAN :
       run = [RetryIdle EXCEPT
                 !.pc = "do", !.lastHost = l, !.u = 1,
                 !.req = [method |-> m, path |-> p,
                          host |-> [Host |-> 1, Capabilities |-> {"Pull", "Resolve"},
                                    Authorizer |-> a, Rewrites |-> <<>>]]]

\* One round of doWithRetriesInner (lines 734-751): attempts counts the
\* requests handed to the client, added lists the calls of AddResponses (the
\* responses passed and the answer); ret is what doWithRetries returns.
DoRound ==
    /\ run.pc = "do"
    /\ \E o \in round(run, run.lastHost, DoErrors(run.req.host), AllStatuses) :
          LET sent == o.err # doErr("invalid authorization")
              t == [o.s EXCEPT !.attempts = IF sent THEN @ + 1 ELSE @,
                               !.added = IF o.asked
                                         THEN Append(@, [responses |-> o.s.responses,
                                                         answer |-> o.answer])
                                         ELSE @]
          IN run' = CASE o.kind = "retry" -> t
                      [] o.kind = "failed" ->
                           [t EXCEPT !.pc = "done", !.ret = [st |-> 0, err |-> o.err]]
                      [] OTHER ->
                           [t EXCEPT !.pc = "done", !.ret = [st |-> o.st, err |-> NoErr]]
    /\ UNCHANGED <<rvars, tvars, fvars, pvars>>

\* ------------------------------------------------- request.addNamespace
\* A path is a sequence of tokens: a piece of the URL path, the '?', a query
\* parameter k=v, the '&' between two parameters.
QMark == <<"?">>
Amp == <<"&">>
Param(k, v) == <<k, "=", v>>

\* strings.IndexByte(r.path, '?'), counted from 1; 0 when there is none.
IndexQMark(path) ==
    IF \E k \in 1..Len(path) : path[k] = QMark
    THEN CHOOSE k \in 1..Len(path) :
            path[k] = QMark /\ \A j \in 1..(k - 1) : path[j] # QMark
    ELSE 0

\* url.ParseQuery: the parameters between the '&', in order; a piece that
\* cannot be unescaped is an error.
ParseQuery(query) ==
    LET pieces == SelectSeq(query, LAMBDA t : t # Amp)
    IN [q |-> pieces, err |-> \E k \in 1..Len(pieces) : Len(pieces[k]) # 3]

\* url.Values.Add
Add(q, k, v) == Append(q, Param(k, v))

\* The keys of the parameters in the order of sort.Strings.
SortedKeys == <<"a", "b", "ns", "z">>

\* The pieces joined with '&'.
RECURSIVE Join(_)
Join(pieces) ==
    IF Len(pieces) <= 1 THEN pieces
    ELSE <<Head(pieces), Amp>> \o Join(Tail(pieces))

\* The parameters of q whose key is one of keys, key after key.
RECURSIVE ByKey(_, _)
ByKey(q, keys) ==
    IF keys = <<>> THEN <<>>
    ELSE SelectSeq(q, LAMBDA t : t[1] = Head(keys)) \o ByKey(q, Tail(keys))

\* url.Values.Encode: the parameters sorted by key, joined with '&'.
Encode(q) == Join(ByKey(q, SortedKeys))

\* RegistryHost.isProxy(refhost): the host serves a namespace not its own.
isProxy(host, ns) == host # ns

\* request.addNamespace: the path of the request after the call, and whether
\* the call failed.
addNamespace(r, ns) ==
    IF ~isProxy(r.host, ns) THEN [path |-> r.path, err |-> FALSE]
    ELSE LET at == IndexQMark(r.path)
         IN IF at > 1   \* i > 0, the bytes being counted from 0 there
            THEN LET path1 == SubSeq(r.path, 1, at)
                     parsed == ParseQuery(SubSeq(path1, at + 1, Len(path1)))
                 IN IF parsed.err THEN [path |-> path1, err |-> TRUE]
                    ELSE [path |-> path1 \o Encode(Add(parsed.q, "ns", ns)),
                          err |-> FALSE]
            ELSE [path |-> Append(r.path, QMark) \o Encode(Add(<<>>, "ns", ns)),
                  err |-> FALSE]

\* The query parameters a path may carry, and the queries made of them.
Params == {Param("a", "1"), Param("b", "2"), Param("z", "9")}
Queries ==
    {<<>>} \cup {<<QMark, x>> : x \in Params}
           \cup {<<QMark, x, Amp, y>> : x \in Params, y \in Params}

\* The paths addNamespace is called on, the hosts and the namespaces.
NsPaths ==
    {<<<<"/v2/app/manifests/v1">>>> \o q : q \in Queries}
       \cup {<<<<"/v2/app/blobs/sha256:ref">>>> \o q : q \in Queries}
NsHosts == {"docker.io", "mirror.local"}
Namespaces == {"docker.io", "quay.io"}

NsIdle == [pc |-> "idle", r |-> [path |-> <<>>, host |-> ""], ns |-> "",
           path |-> <<>>, err |-> FALSE]

\* addNamespace(ns) is about to be called on a request.
NsInit ==
    \E path \in NsPaths, host \in NsHosts, ns \in Namespaces :
       nscall = [NsIdle EXCEPT !.pc = "call", !.r = [path |-> path, host |-> host],
                               !.ns = ns]

\* The call: path is r.path after it.
AddNamespace ==
    /\ nscall.pc = "call"
    /\ LET out == addNamespace(nscall.r, nscall.ns)
       IN nscall' = [nscall EXCEPT !.pc = "done", !.path = out.path, !.err = out.err]
    /\ UNCHANGED <<rvars, tvars, fvars, run, rwcall>>

\* -------------------------------------- dockerBase.withRewritesFromHost
\* The rewrites of a host as they are configured: (pattern, replace) pairs
\* with different patterns.
RewritePairs ==
    { <<"^app$", "mirror/app">>, <<"^(.*)$", "proxy/app">>, <<"(", "none">> }
Configured ==
    { sq \in UNION {[1..n -> RewritePairs] : n \in 0..3} :
         \A a, b \in 1..Len(sq) : a # b => sq[a] # sq[b] }

\* host.Rewrites: the map made of the configured pairs.
RewritesOf(configured) ==
    [pattern \in {configured[k][1] : k \in 1..Len(configured)} |->
        (CHOOSE k \in 1..Len(configured) : configured[k][1] = pattern)]

RewriteMapOf(configured) ==
    [pattern \in DOMAIN RewritesOf(configured) |->
        configured[RewritesOf(configured)[pattern]][2]]

RwIdle == [pc |-> "idle", repository |-> "", configured |-> <<>>,
           order |-> <<>>, out |-> ""]

\* withRewritesFromHost(host) is about to be called on a base.
RwInit ==
    \E repository \in {Repository, "lib"}, configured \in Configured :
       rwcall = [RwIdle EXCEPT !.pc = "call", !.repository = repository,
                               !.configured = configured]

\* The call: the range visits the map in some order.
WithRewrites ==
    /\ rwcall.pc = "call"
    /\ LET rewrites == RewriteMapOf(rwcall.configured)
       IN \E order \in Orders(DOMAIN rewrites) :
             rwcall' = [rwcall EXCEPT
                          !.pc = "done", !.order = order,
                          !.out = withRewritesFromHost(rwcall.repository,
                                                       [Rewrites |-> rewrites], order)]
    /\ UNCHANGED <<rvars, tvars, fvars, run, nscall>>

\* No call of the two functions on their own.
NoPure == nscall = NsIdle /\ rwcall = RwIdle

\* ------------------------------------------------- httpFallback.RoundTrip
\* The goroutines that call RoundTrip concurrently.
Callers == {"g1", "g2"}

\* r.URL.Host: a name, with or without an explicit port.
NoHost == [name |-> "", port |-> ""]
URLHosts == {[name |-> "a", port |-> ""], [name |-> "b", port |-> "5000"]}

\* The requests: URL scheme and host, and the body with its GetBody
\* ("none": no body; "ok": GetBody rebuilds it; "fail": GetBody fails).
Requests == [Host : URLHosts, Scheme : {"https"}, Body : {"none", "ok", "fail"}]

\* What f.super.RoundTrip gives back: a response, or an error: a TLS record
\* header error spelling "HTTP/", a TLS handshake timeout, a connection
\* error, a timeout, any other error.
InnerResults == {"response", "tls HTTP/", "TLS handshake timeout", "connection", "timeout", "other"}

isTLSError(err) == err \in {"tls HTTP/", "TLS handshake timeout"}

isConnError(err) == err = "connection"

\* The port of the URL not looked at.
isPortErrorAnyPort(err, host) == isConnError(err) \/ err = "timeout"

\* net.SplitHostPort(host): the port, "" when there is none.
isPortError(err, host) ==
    IF isConnError(err) \/ err = "timeout"
    THEN IF host.port # "" THEN FALSE ELSE TRUE
    ELSE FALSE

\* The fallback never sticks.
isFallbackNever(h, rhost) == FALSE

\* Every host taken for the remembered one.
isFallbackAlways(h, rhost) == TRUE

\* fallback := f.host == r.URL.Host (under f.mu)
isFallback(h, rhost) == h = rhost

Idle == [pc |-> "idle", r |-> [Host |-> NoHost, Scheme |-> "", Body |-> "none"],
         fallback |-> FALSE, attempts |-> <<>>, err |-> ""]

\* RoundTrip returns: the goroutine is free for its next call.
returns(g, c, ret) ==
    /\ calls' = [calls EXCEPT ![g] = Idle]
    /\ returned' = [Host |-> c.r.Host, attempts |-> c.attempts, ret |-> ret]

\* Lines 878-880: RoundTrip(r) begins and reads f.host under the mutex.
Begin(g) ==
    /\ calls[g].pc = "idle"
    /\ ncalls < MaxCalls
    /\ ncalls' = ncalls + 1
    /\ \E r \in Requests :
          LET fallback == isFallback(fhost, r.Host)
          IN calls' = [calls EXCEPT ![g] =
                         [pc |-> IF fallback THEN "plain" ELSE "super",
                          r |-> r, fallback |-> fallback, attempts |-> <<>>,
                          err |-> ""]]
    /\ UNCHANGED <<fhost, inner, returned, rvars, tvars, run, pvars>>

\* Lines 883-888: the request goes to the inner transport as it is.
Super(g) ==
    /\ calls[g].pc = "super"
    /\ LET c == [calls[g] EXCEPT !.attempts = Append(@, calls[g].r.Scheme)]
       IN /\ inner' = [Host |-> c.r.Host, Scheme |-> c.r.Scheme]
          /\ \E err \in InnerResults :
                IF ~isTLSError(err) /\ ~isPortError(err, c.r.Host)
                THEN returns(g, c, err)
                ELSE calls' = [calls EXCEPT ![g] = [c EXCEPT !.pc = "remember",
                                                            !.err = err]]
                     /\ UNCHANGED returned
    /\ UNCHANGED <<fhost, ncalls, rvars, tvars, run, pvars>>

\* Lines 896-911: the host is remembered under the mutex and the body rebuilt.
Remember(g) ==
    /\ calls[g].pc = "remember"
    /\ fhost' = calls[g].r.Host
    /\ IF calls[g].r.Body = "fail"
       THEN returns(g, calls[g], "GetBody failed")
       ELSE calls' = [calls EXCEPT ![g].pc = "plain"] /\ UNCHANGED returned
    /\ UNCHANGED <<ncalls, inner, rvars, tvars, run, pvars>>

\* Lines 890-894 and 913: the request goes to the inner transport over http.
Plain(g) ==
    /\ calls[g].pc = "plain"
    /\ LET c == [calls[g] EXCEPT !.attempts = Append(@, "http")]
       IN /\ inner' = [Host |-> c.r.Host, Scheme |-> "http"]
          /\ \E res \in InnerResults : returns(g, c, res)
    /\ UNCHANGED <<fhost, ncalls, rvars, tvars, run, pvars>>

FallbackInit ==
    /\ fhost = NoHost
    /\ calls = [g \in Callers |-> Idle]
    /\ ncalls = 0
    /\ inner = [Host |-> NoHost, Scheme |-> ""]
    /\ returned = [Host |-> NoHost, attempts |-> <<>>, ret |-> ""]

\* --------------------------------------------------------- specifications
\* One Resolve call, for every reference and every host configuration.
Init ==
    /\ ref \in Refs
    /\ \E n \in 0..MaxHosts : \E f \in [1..n -> HostKinds] :
          rhosts = [k \in 1..n |->
                      [Host |-> k, Capabilities |-> f[k].Capabilities,
                       Authorizer |-> f[k].Authorizer, Rewrites |-> <<>>]]
    /\ ResolveInit /\ NoTwice
    /\ FallbackInit
    /\ run = RetryIdle /\ NoPure

\* The body of the GET response is streamed (lines 377-416).
ReadBody ==
    /\ pc = "read"
    /\ Elsewhere /\ UNCHANGED <<paths, hosts>>
    /\ Set(readBody(Locals))

Next == ResolveStart \/ HeadAttempt \/ GetAttempt \/ ReadBody

Spec == Init /\ [][Next]_vars

\* Concurrent RoundTrip calls on one fallback transport.
InitFallback ==
    /\ ref = [Object |-> "", Digest |-> NoDigest] /\ rhosts = <<>>
    /\ ResolveInit /\ NoTwice
    /\ FallbackInit
    /\ run = RetryIdle /\ NoPure

BeginCall == \E g \in Callers : Begin(g)
SuperCall == \E g \in Callers : Super(g)
RememberCall == \E g \in Callers : Remember(g)
PlainCall == \E g \in Callers : Plain(g)

NextFallback == BeginCall \/ SuperCall \/ RememberCall \/ PlainCall

SpecFallback == InitFallback /\ [][NextFallback]_vars

\* One request run by doWithRetries, for every method, path, host and
\* position of the host.
InitRetry ==
    /\ ref = [Object |-> "", Digest |-> NoDigest] /\ rhosts = <<>>
    /\ ResolveInit /\ NoTwice
    /\ FallbackInit
    /\ RetryInit /\ NoPure

NextRetry == DoRound

SpecRetry == InitRetry /\ [][NextRetry]_vars

\* addNamespace on every path, host and namespace.
InitNamespace ==
    /\ ref = [Object |-> "", Digest |-> NoDigest] /\ rhosts = <<>>
    /\ ResolveInit /\ NoTwice
    /\ FallbackInit
    /\ run = RetryIdle /\ rwcall = RwIdle
    /\ NsInit

NextNamespace == AddNamespace

SpecNamespace == InitNamespace /\ [][NextNamespace]_vars

\* withRewritesFromHost on every repository and configuration of rewrites.
InitRewrite ==
    /\ ref = [Object |-> "", Digest |-> NoDigest] /\ rhosts = <<>>
    /\ ResolveInit /\ NoTwice
    /\ FallbackInit
    /\ run = RetryIdle /\ nscall = NsIdle
    /\ RwInit

NextRewrite == WithRewrites

SpecRewrite == InitRewrite /\ [][NextRewrite]_vars

\* The answers of a host that answers as a fixed function of the request: a
\* manifest with its digest and length in the headers, the same without
\* them, and no manifest.
SmallBody == [chunks |-> <<[data |-> "a", n |-> 1000], [data |-> "b", n |-> 200]>>, fail |-> FALSE]
Answers ==
    { [StatusCode |-> 200, ContentLength |-> 1234, ContentType |-> MediaTypeImageManifest,
       DockerContentDigest |-> <<"sha256", <<"a">>>>, Body |-> SmallBody],
      [StatusCode |-> 200, ContentLength |-> -1, ContentType |-> MediaTypeImageManifest,
       DockerContentDigest |-> NoDigest, Body |-> SmallBody],
      [StatusCode |-> 404, ContentLength |-> -1, ContentType |-> <<>>,
       DockerContentDigest |-> NoDigest, Body |-> [chunks |-> <<>>, fail |-> FALSE]] }

\* host.Rewrites: two rewrites that both apply to the repository; one rewrite
\* and a pattern that does not compile.
RewriteMaps ==
    { ("^app$" :> "mirror/app") @@ ("^(.*)$" :> "proxy/app"),
      ("(" :> "none") @@ ("^app$" :> "mirror/app") }

\* The requests Resolve may send for the tag v1 of the repository.
TagRequests ==
    { <<1, <<"v2", b, "manifests", "v1">>, m>> :
         b \in {Repository, "mirror/app", "proxy/app"}, m \in {"HEAD", "GET"} }

\* Two Resolve calls for one tag, on one host with rewrites that answers as
\* a fixed function of the request.
InitTwice ==
    /\ ref = [Object |-> "v1", Digest |-> NoDigest]
    /\ \E rw \in RewriteMaps :
          rhosts = <<[Host |-> 1, Capabilities |-> {"Pull", "Resolve"},
                      Authorizer |-> FALSE, Rewrites |-> rw]>>
    /\ mapOrder \in MapOrders
    /\ registry \in [TagRequests -> Answers]
    /\ first = NoResult
    /\ ResolveInit
    /\ FallbackInit
    /\ run = RetryIdle /\ NoPure

NextTwice == Next \/ ResolveAgain

SpecTwice == InitTwice /\ [][NextTwice]_vars

\* ------------------------------------------------------------- claims
Max(S) == CHOOSE x \in S : \A y \in S : y <= x

\* The priority under which Resolve records an error of this kind.
priorityOf(err) ==
    CASE err.kind = "Request" -> 1
      [] err.kind = "NotFound" /\ err.msg = "ref" -> 2
      [] err.kind = "UnexpectedStatus" -> 3
      [] err.kind = "NotFound" /\ err.msg = "rejecting manifest" -> 4
      [] OTHER -> 0

RECURSIVE BodyLen(_)
BodyLen(chunks) == IF chunks = <<>> THEN 0 ELSE Head(chunks).n + BodyLen(Tail(chunks))

BodyData(chunks) == [k \in 1..Len(chunks) |-> chunks[k].data]

Succeeded == pc = "done" /\ result.ret = 416

\* C1: when the loops end without a terminal return (the return after the
\* loops, line 426), the error returned is one recorded with the highest
\* priority among all failures met: 1 request error, 2 not found (404),
\* 3 unexpected status, 4 size ceiling.
C1_HighestPriorityReturned ==
    (pc = "done" /\ result.ret = 426) =>
        /\ recorded # {}
        /\ priorityOf(result.err) = Max(recorded)

\* A request-level failure and a 500 were both met, and the 500 is returned.
C1_Witness ==
    /\ pc = "done" /\ result.ret = 426 /\ recorded = {1, 3}
    /\ result.err = unexpectedResponseErr(500)

\* C2: every descriptor returned has 0 <= Size <= MaxManifestSize.
C2_SizeWithinCeiling ==
    Succeeded => (0 <= result.desc.Size /\ result.desc.Size <= MaxManifestSize)

\* A descriptor whose size was counted from the streamed body (1200 bytes is
\* the length of a body, and no Content-Length).
C2_Witness == Succeeded /\ result.desc.Size = 1200

\* C3: the ceiling is 4 194 304 bytes: no descriptor returned is larger.
C3_CeilingIs4MiB == Succeeded => result.desc.Size <= 4 * 1024 * 1024

\* C4: a successful Resolve of a reference with a digest returns that digest.
C4_InputDigestReturned ==
    (Succeeded /\ ref.Digest # NoDigest) => result.desc.Digest = ref.Digest

\* A digest reference resolved on the blobs path after a GET.
C4_Witness ==
    /\ Succeeded /\ ref.Digest # NoDigest
    /\ wire.path = 2 /\ wire.method = "GET"

\* C5 as stated: whenever the body of the GET was read and Resolve succeeds,
\* the digest is the hash of that body and the size its length.
C5_DigestAndSizeFromBody ==
    [][(pc = "read" /\ pc' = "done" /\ result'.ret = 416) =>
          /\ result'.desc.Digest = FromBytes(BodyData(resp.Body.chunks))
          /\ result'.desc.Size = BodyLen(resp.Body.chunks)]_vars

\* C5 amended: the size is the length of the body read; the digest is the
\* hash of the body when no digest was known before the GET.
C5_SizeFromBodyDigestWhenUnknown ==
    [][(pc = "read" /\ pc' = "done" /\ result'.ret = 416) =>
          /\ result'.desc.Size = BodyLen(resp.Body.chunks)
          /\ (dgst = NoDigest =>
                result'.desc.Digest = FromBytes(BodyData(resp.Body.chunks)))]_vars

\* A tag resolved to the hash and the length of a two-chunk body.
C5_Witness ==
    /\ Succeeded /\ ref.Digest = NoDigest
    /\ result.desc.Digest = FromBytes(<<"a", "b">>) /\ result.desc.Size = 1200

\* C6: a schema 1 answer ends Resolve with NotImplemented: the step that
\* reads a schema 1 response, and any step that returns a schema 1
\* descriptor, returns the NotImplemented error.
C6_Schema1Terminates ==
    [][((pc = "read" /\ contentType = MediaTypeDockerSchema1Manifest)
          \/ (result' # result /\ result'.desc.MediaType = MediaTypeDockerSchema1Manifest))
        => result'.err.kind = "NotImplemented"]_vars

\* C7: no descriptor returned has the schema 1 media type.
C7_NoSchema1Descriptor ==
    Succeeded => result.desc.MediaType # MediaTypeDockerSchema1Manifest

\* C8: Resolve returns an error while untried (path, host) pairs remain only
\* for a body-read failure, a schema 1 rejection or a 3xx status.
C8_OnlyTerminalErrorsAbort ==
    [][(pc \in {"head", "get", "read"} /\ pc' = "done" /\ result'.err # NoErr
          /\ ~(u = Len(paths) /\ i = Len(hosts)))
        => \/ result'.err.kind \in {"BodyRead", "NotImplemented"}
           \/ (result'.err.kind = "UnexpectedStatus"
                 /\ result'.err.status \in 300..399)]_vars

\* The step is taken by goroutine g.
Steps(g) == calls'[g] # calls[g]

\* A RoundTrip that begins while its host is the remembered one goes straight
\* to the plain http attempt, and returns after that one attempt.
StickyCallsGoPlain ==
    \A g \in Callers :
       /\ (calls[g].pc = "idle" /\ Steps(g) /\ calls'[g].r.Host = fhost)
             => (calls'[g].pc = "plain" /\ calls'[g].attempts = <<>>)
       /\ (calls[g].pc = "plain" /\ calls[g].fallback /\ Steps(g))
             => /\ calls'[g].pc = "idle"
                /\ inner' = [Host |-> calls[g].r.Host, Scheme |-> "http"]
                /\ returned'.attempts = <<"http">>

\* A call whose first attempt triggered the fallback returns after exactly
\* one more attempt, over http.
RetriedOnce ==
    \A g \in Callers :
       (calls[g].pc = "plain" /\ ~calls[g].fallback /\ Steps(g))
          => /\ calls'[g].pc = "idle"
             /\ inner' = [Host |-> calls[g].r.Host, Scheme |-> "http"]
             /\ returned'.attempts = <<calls[g].r.Scheme, "http">>

\* C9 as stated: after a fallback-triggering failure the host is remembered
\* and the request retried once over http; every later RoundTrip to the
\* remembered host makes one attempt, over http.
C9_StickyFallback ==
    [][/\ \A g \in Callers :
             (calls[g].pc = "remember" /\ Steps(g))
                => (fhost' = calls[g].r.Host /\ calls'[g].pc = "plain")
       /\ RetriedOnce
       /\ StickyCallsGoPlain]_vars

\* C9 amended: the retry over http is made unless rebuilding the body with
\* GetBody fails; then RoundTrip returns that error with the host remembered
\* and no second attempt.
C9_StickyFallbackUnlessGetBodyFails ==
    [][/\ \A g \in Callers :
             (calls[g].pc = "remember" /\ Steps(g))
                => /\ fhost' = calls[g].r.Host
                   /\ IF calls[g].r.Body = "fail"
                      THEN /\ calls'[g].pc = "idle"
                           /\ returned'.ret = "GetBody failed"
                           /\ returned'.attempts = <<calls[g].r.Scheme>>
                           /\ inner' = inner
                      ELSE calls'[g].pc = "plain"
       /\ RetriedOnce
       /\ StickyCallsGoPlain]_vars

\* A call to the remembered host has returned after its one http attempt.
C9_Witness ==
    /\ fhost # NoHost /\ returned.Host = fhost
    /\ returned.attempts = <<"http">>
    /\ inner = [Host |-> fhost, Scheme |-> "http"]

\* The capabilities Resolve requires of a host for the reference.
RequiredCaps == IF ref.Digest # NoDigest THEN {"Pull"} ELSE {"Pull", "Resolve"}

\* C10: requests go only to hosts with every required capability, in the
\* configured order; when no host qualifies Resolve fails with NotFound
\* "no resolve hosts" and nothing is sent.
C10_OnlyCapableHostsInOrder ==
    /\ [](wire.host # 0 => RequiredCaps \subseteq rhosts[wire.host].Capabilities)
    /\ []((pc # "start" /\ ref.Object # ""
             /\ (ref.Digest = NoDigest \/ Validate(ref.Digest))
             /\ \A k \in 1..Len(rhosts) : ~(RequiredCaps \subseteq rhosts[k].Capabilities))
          => /\ pc = "done" /\ result.ret = 272
             /\ result.err = Err("NotFound", "no resolve hosts", 0, 0)
             /\ wire.host = 0)
    /\ [][wire' # wire =>
            \/ wire'.path > wire.path
            \/ wire'.path = wire.path /\ wire'.host >= wire.host]_vars

\* The first configured host lacks a capability and the request went to the
\* second.
C10_Witness ==
    /\ Len(rhosts) >= 2
    /\ ~(RequiredCaps \subseteq rhosts[1].Capabilities)
    /\ wire.host = 2

\* C11: a second Resolve call for the same reference, against hosts that
\* answer as a fixed function of the request, returns the descriptor the
\* first call returned.
C11_SecondCallSameDescriptor ==
    (pc = "done" /\ first.ret = 416) =>
        (result.ret = 416 /\ result.desc = first.desc)

\* The round of doWithRetriesInner taken in this step was answered with
\* status st, as response number n or earlier of the request.
Answered(st, n) ==
    /\ run.pc = "do"
    /\ run'.responses = Append(run.responses, st)
    /\ Len(run'.responses) <= n

\* The request is retried / is over with the response st and no error.
Retried == run'.pc = "do" /\ run'.ret = NoRet
Terminal(st) == run'.pc = "done" /\ run'.ret = [st |-> st, err |-> NoErr]

\* C12: a request run by doWithRetries makes at most 6 HTTP attempts, the
\* retries of every kind counted together, and the 6th response is returned
\* without asking the authorizer and without a retry.
C12_AtMostSixAttempts ==
    /\ [](run.attempts <= 6 /\ Len(run.responses) <= 6)
    /\ [][\A st \in AllStatuses :
             (Answered(st, 6) /\ Len(run'.responses) = 6)
                => (Terminal(st) /\ run'.added = run.added)]_vars

\* Six attempts: a 405 demotion, an authorization retry, a 429 and two
\* server errors were retried, and the sixth response, a 401, was returned.
C12_Witness ==
    /\ run.pc = "done" /\ run.attempts = 6
    /\ run.responses = <<405, 401, 429, 500, 503, 401>>
    /\ run.ret = [st |-> 401, err |-> NoErr]

\* C13: for a 401 among the first five responses the authorizer, if there
\* is one, is given the whole history once; the request is retried when it
\* accepts, the 401 is returned without error when it answers NotImplemented
\* or when there is no authorizer, and any other error of AddResponses ends
\* the request with an error and no further attempt.
C13_UnauthorizedAsksAuthorizerOnce ==
    [][Answered(401, 5) =>
          IF run.req.host.Authorizer
          THEN /\ Len(run'.added) = Len(run.added) + 1
               /\ SubSeq(run'.added, 1, Len(run.added)) = run.added
               /\ LET c == run'.added[Len(run'.added)]
                  IN /\ c.responses = run'.responses
                     /\ CASE c.answer = "ok" -> Retried
                          [] c.answer = "NotImplemented" -> Terminal(401)
                          [] OTHER -> /\ run'.pc = "done"
                                      /\ run'.ret.err # NoErr
                                      /\ run'.attempts = run.attempts + 1
          ELSE run'.added = run.added /\ Terminal(401)]_vars

\* The authorizer accepted a first 401, and failed on the second.
C13_Witness ==
    /\ run.pc = "done" /\ run.responses = <<401, 401>>
    /\ Len(run.added) = 2
    /\ run.added[1] = [responses |-> <<401>>, answer |-> "ok"]
    /\ run.added[2] = [responses |-> <<401, 401>>, answer |-> "error"]
    /\ run.ret.err = Err("Request", "AddResponses failed", 0, 0)

\* The request of the phase ph ("head" or "get") of the current pair is
\* retried after the status st.
RetriedAfter(ph, st) ==
    pc = ph /\ pc' = ph /\ u' = u /\ i' = i /\ responses' = Append(responses, st)

\* The attempt before this one was answered with st.
Preceded(st) == responses # <<>> /\ responses[Len(responses)] = st

\* C14 as stated: in Resolve a 5xx is retried only on the final host of the
\* filtered chain and only when the preceding attempt of the request did not
\* return the same status, for the HEAD and for the GET alike.
C14_ServerErrorRetriedOnFinalHostOnly ==
    [][\A ph \in {"head", "get"} :
          RetriedAfter(ph, 500) => (i = Len(hosts) /\ ~Preceded(500))]_vars

\* C14 amended: that holds of the HEAD; the GET is retried on any host, once
\* per run of equal statuses: a 500 to the GET is handed to Resolve only
\* after a 500 or as the sixth response.
C14_ServerErrorRetriedOnFinalHostOrGet ==
    [][/\ RetriedAfter("head", 500) => (i = Len(hosts) /\ ~Preceded(500))
       /\ RetriedAfter("get", 500) => ~Preceded(500)
       /\ (pc = "get" /\ pc' = "read" /\ resp'.StatusCode = 500)
             => (Preceded(500) \/ Len(responses) = 5)]_vars

\* The GET to the first of two hosts was answered 500 and is being retried.
C14_Witness ==
    /\ pc = "get" /\ i = 1 /\ Len(hosts) = 2
    /\ responses = <<500>> /\ wire.method = "GET"

\* C15: a 502 from the final host that does not follow a 502 is retried, as
\* 500, 503 and 504 are.
C15_BadGatewayRetried ==
    [][(Answered(502, 5) /\ run.lastHost
          /\ (run.responses = <<>> \/ run.responses[Len(run.responses)] # 502))
        => Retried]_vars

\* The request is retried with the method GET.
Demoted == Retried /\ run'.req.method = "GET"

\* The method of a request changes from HEAD to GET only.
NeverReverts ==
    run'.req.method # run.req.method =>
        (run.req.method = "HEAD" /\ run'.req.method = "GET")

\* C16: a 405 is retried, with GET, only for a HEAD on a manifests path; a
\* 405 to a GET or to a HEAD on a blobs path is returned; the method never
\* goes back to HEAD.
C16_OnlyManifestsHeadDemoted ==
    [][/\ Answered(405, 5) =>
             IF run.req.method = "HEAD" /\ run.req.path = ManifestsPath
             THEN Demoted ELSE Terminal(405)
       /\ NeverReverts]_vars

\* C17: after a successful HEAD the GET is sent if and only if the digest is
\* known neither from the reference nor from a valid Docker-Content-Digest
\* header of that response, or its Content-Length is -1: the GET is being
\* sent only while a digest or the length is missing, and a descriptor made
\* from the HEAD response alone has its digest from the reference or from
\* the valid header of that response, and the length of that response.
C17_GetIffDigestOrLengthUnknown ==
    /\ pc = "get" => (dgst = NoDigest \/ size = -1)
    /\ (Succeeded /\ head # NoHead) =>
          /\ head.ContentLength # -1
          /\ \/ ref.Digest # NoDigest
             \/ Validate(head.DockerContentDigest)

\* C18: the attempts of one Resolve follow one another: every request goes
\* to the current pair, the pairs are visited host after host for the
\* manifests path and only then for the blobs path, and the GET of a pair is
\* sent only after its HEAD has been answered.
C18_OnePairAtATime ==
    /\ [](Len(paths) = 2 => (paths[1][1] = "manifests" /\ paths[2][1] = "blobs"))
    /\ [][/\ (pc = "start" /\ pc' # "done") => (pc' = "head" /\ u' = 1 /\ i' = 1)
          /\ (pc # "start" /\ pc' # "done" /\ <<u', i'>> # <<u, i>>)
                => /\ pc \in {"head", "read"} /\ pc' = "head" /\ responses' = <<>>
                   /\ \/ u' = u /\ i' = i + 1
                      \/ i = Len(hosts) /\ u' = u + 1 /\ i' = 1
          /\ (pc' = "get" /\ pc # "get")
                => (pc = "head" /\ u' = u /\ i' = i /\ responses' = <<>>)
          /\ wire' # wire
                => /\ pc \in {"head", "get"}
                   /\ wire'.path = u /\ wire'.host = hosts[i].Host
                   /\ pc = "get" => wire'.method = "GET"]_vars

\* A digest reference on two hosts: the blobs path is being tried on the
\* second host, after its HEAD the GET.
C18_Witness ==
    /\ ref.Digest = RefDigest /\ Len(hosts) = 2
    /\ pc = "get" /\ u = 2 /\ i = 2
    /\ wire = [path |-> 2, host |-> hosts[2].Host, method |-> "HEAD"]

\* C19: the transport remembers one host at most; the remembered host
\* changes only when a call that triggered the fallback writes its own host,
\* whatever was remembered before (the last writer wins); a call to a host
\* that is not the remembered one, an earlier remembered host included, is
\* sent over https first.
C19_LastWriterWins ==
    /\ [](fhost \in {NoHost} \cup URLHosts)
    /\ [][/\ fhost' # fhost =>
                \E g \in Callers :
                   calls[g].pc = "remember" /\ Steps(g) /\ fhost' = calls[g].r.Host
          /\ \A g \in Callers :
                /\ (calls[g].pc = "remember" /\ Steps(g)) => fhost' = calls[g].r.Host
                /\ (calls[g].pc = "idle" /\ Steps(g) /\ calls'[g].r.Host # fhost)
                      => (calls'[g].pc = "super" /\ ~calls'[g].fallback)
                /\ (calls[g].pc = "super" /\ Steps(g))
                      => inner' = [Host |-> calls[g].r.Host, Scheme |-> "https"]]_vars

\* Host a was the remembered one (a call to it went over http at once), host
\* b:5000 has replaced it, and a new call to a is about to go over https.
C19_Witness ==
    /\ fhost = [name |-> "b", port |-> "5000"]
    /\ returned.Host = [name |-> "a", port |-> ""] /\ returned.attempts = <<"http">>
    /\ \E g \in Callers :
          calls[g].pc = "super" /\ calls[g].r.Host = [name |-> "a", port |-> ""]

\* C20: a connection error or a timeout triggers the fallback only for a URL
\* without explicit port; whenever the inner transport answers, or fails
\* with an error that is neither a TLS error nor such a port error, RoundTrip
\* returns that result after the one attempt and the remembered host stays.
C20_FallbackOnlyOnTLSOrPortError ==
    [][\A g \in Callers :
          (calls[g].pc = "super" /\ Steps(g)) =>
             LET c == calls[g]
                 d == calls'[g]
             IN IF d.pc = "remember"
                THEN \/ d.err \in {"tls HTTP/", "TLS handshake timeout"}
                     \/ d.err \in {"connection", "timeout"} /\ c.r.Host.port = ""
                ELSE /\ d.pc = "idle"
                     /\ returned'.ret \in {"response", "other"}
                           \/ (returned'.ret \in {"connection", "timeout"}
                                 /\ c.r.Host.port # "")
                     /\ returned'.Host = c.r.Host
                     /\ returned'.attempts = <<c.r.Scheme>>
                     /\ inner' = [Host |-> c.r.Host, Scheme |-> c.r.Scheme]
                     /\ fhost' = fhost]_vars

\* A connection error for a URL with a port was returned after the one https
\* attempt, with host a still the remembered one.
C20_Witness ==
    /\ returned = [Host |-> [name |-> "b", port |-> "5000"],
                   attempts |-> <<"https">>, ret |-> "connection"]
    /\ fhost = [name |-> "a", port |-> ""]

\* The query parameters of a path.
QueryOf(path) ==
    IF IndexQMark(path) = 0 THEN {}
    ELSE {path[k] : k \in (IndexQMark(path) + 1)..Len(path)} \ {Amp}

\* C21: for a host that is a proxy for the namespace the path after
\* addNamespace has ns=<namespace> in its query and every parameter the path
\* had before; for any other host the path is unchanged.
C21_NamespaceAddedQueryKept ==
    nscall.pc = "done" =>
        IF isProxy(nscall.r.host, nscall.ns)
        THEN /\ ~nscall.err
             /\ Param("ns", nscall.ns) \in QueryOf(nscall.path)
             /\ QueryOf(nscall.r.path) \subseteq QueryOf(nscall.path)
        ELSE nscall.path = nscall.r.path

\* The patterns of the configured rewrites, left to right.
LeftToRight(configured) == [k \in 1..Len(configured) |-> configured[k][1]]

\* C22: the repository used for a host is the result of the first rewrite, in
\* the configured left-to-right order, that compiles and whose substitution
\* changes the repository (the repository itself when there is none), so
\* that the same repository and rewrites always give the same result.
C22_FirstConfiguredRewriteWins ==
    rwcall.pc = "done" =>
        rwcall.out = withRewritesFromHost(rwcall.repository,
                         [Rewrites |-> RewriteMapOf(rwcall.configured)],
                         LeftToRight(rwcall.configured))

\* C23: the descriptor returned for a tag comes from the responses of the
\* pair that succeeded: when the body of the GET was read, the digest is the
\* hash of that body, the size its length and the media type that of the GET
\* response; when the HEAD response was enough, the digest is the
\* Docker-Content-Digest header of that response and the size its
\* Content-Length.
C23_DescriptorFromOnePair ==
    [][(pc # "done" /\ pc' = "done" /\ result'.ret = 416 /\ ref.Digest = NoDigest) =>
          IF pc = "read"
          THEN /\ result'.desc.Digest = FromBytes(BodyData(resp.Body.chunks))
               /\ result'.desc.Size = BodyLen(resp.Body.chunks)
               /\ result'.desc.MediaType = getManifestMediaType(resp)
          ELSE /\ head' # NoHead
               /\ result'.desc.Digest = head'.DockerContentDigest
               /\ result'.desc.Size = head'.ContentLength]_vars

\* C24: a descriptor is returned on the strength of 2xx responses only: the
\* step that reads the body of the GET response and returns a descriptor
\* reads the body of a response whose status is below 300.
C24_DescriptorOnlyFrom2xx ==
    [][(pc = "read" /\ pc' = "done" /\ result'.ret = 416) =>
          resp.StatusCode <= 299]_vars

====
